---- MODULE Spec2Model ----
(***************************************************************************)
(* Model of the sale-order front end: the token store (api/storage.js),    *)
(* the API client (api/client.js), the authentication provider             *)
(* (auth/AuthContext.jsx), the authenticated-only route guard              *)
(* (components/RequireAuth.jsx) and the pages that drive them.             *)
(***************************************************************************)
EXTENDS Integers, Sequences, FiniteSets, TLC

VARIABLES
  store,          \* localStorage item under TOKEN_KEY: NoItem or a string
  user,           \* AuthProvider state `user` (a JS value, Null when none)
  loading,        \* AuthProvider state `loading`
  depToken,       \* `token` read by the last AuthProvider render (effect dep)
  effectPending,  \* the [refresh, token] effect is scheduled and has not run
  route,          \* current location of the HashRouter
  guard,          \* output of the last RequireAuth render
  loginBusy,      \* Login page state `busy`
  loginError,     \* Login page state `error`
  pageError,      \* error banner of the protected page
  inflight,       \* requests issued by fetch() and not yet settled
  nextId,         \* number of requests issued so far
  expired,        \* a 401 to a page's call cleared the user's token, none set since
  last,           \* the last step taken: its kind, operation (or the location
                  \* navigated to), status and outcome
  call,           \* the last direct call of a client function, with its result
  session,        \* how far the direct calls have got through a login-to-logout
                  \* session, and the token the server issued for it
  drafts,         \* sessionStorage: the item under each workflow's UPLOAD_KEY
  page            \* React state of the page component mounted at `route`

vars == <<store, user, loading, depToken, effectPending, route, guard,
          loginBusy, loginError, pageError, inflight, nextId, expired, last, call,
          session, drafts, page>>

----------------------------------------------------------------------------
(* Bounds of the model *)

MaxRequests == 2   \* requests issued in one run
MaxListRequests == 4   \* requests issued by a list page in one run
MaxPage == 3   \* highest page number a list page is taken to

----------------------------------------------------------------------------
(* JavaScript values.  A value is a record [k, s, m]: k is the type tag, s *)
(* the text of a scalar, m the members of an object as a set of            *)
(* <<path, leaf>> pairs (path: non-empty sequence of keys; leaf: [k, s]).  *)

Leaf(k, s) == [k |-> k, s |-> s]
Scalar(k, s) == [k |-> k, s |-> s, m |-> {}]
Undefined == Scalar("undefined", "")
Null == Scalar("null", "")
Str(s) == Scalar("string", s)
Bool(b) == Scalar("boolean", IF b THEN "true" ELSE "false")
Obj(members) == [k |-> "object", s |-> "", m |-> members]
Arr(text) == Scalar("array", text)   \* an array, by its JSON text
EmptyObj == Obj({})

\* JS truthiness (ToBoolean)
Truthy(v) ==
  \/ v.k \in {"object", "array"}
  \/ v.k = "string" /\ v.s # ""
  \/ v.k = "number" /\ v.s # "0"
  \/ v.k = "boolean" /\ v.s = "true"

\* v?.key : property read with optional chaining
Get(v, key) ==
  IF v.k # "object" THEN Undefined
  ELSE LET sub == { <<Tail(e[1]), e[2]>> : e \in { x \in v.m : Head(x[1]) = key } }
       IN IF sub = {} THEN Undefined
          ELSE IF \E e \in sub : e[1] = <<>>
               THEN LET e == CHOOSE x \in sub : x[1] = <<>>
                    IN IF e[2].k = "object" THEN EmptyObj ELSE Scalar(e[2].k, e[2].s)
               ELSE Obj(sub)

\* String(v), as `new Error(v)` and localStorage.setItem(k, v) convert
ToStr(v) ==
  CASE v.k = "object" -> "[object Object]"
    [] v.k = "undefined" -> "undefined"
    [] v.k = "null" -> "null"
    [] OTHER -> v.s

\* a || b
Or(a, b) == IF Truthy(a) THEN a ELSE b

----------------------------------------------------------------------------
(* Token store: api/storage.js.  The stored item is Null (no item) or a    *)
(* string value.                                                           *)

Tokens == {"T1", "T2"}

\* variant of getToken without the `|| ""` default
GetTokenRaw(st) == st

\* localStorage.getItem(TOKEN_KEY) || ""
GetToken(st) == Or(st, Str(""))

\* variant of setToken without the `if (!token) return` guard
SetTokenUnguarded(st, token) == Str(ToStr(token))

\* if (!token) return; localStorage.setItem(TOKEN_KEY, token)
SetToken(st, token) == IF ~Truthy(token) THEN st ELSE Str(ToStr(token))

\* variant of clearToken that leaves the item in place
ClearTokenKeep(st) == st

\* localStorage.removeItem(TOKEN_KEY)
ClearToken(st) == Null

----------------------------------------------------------------------------
(* Request headers: a JS object, kept as a sequence of <<name, value>>     *)
(* pairs in insertion order.                                               *)

HasHeader(h, name) == \E i \in 1..Len(h) : h[i][1] = name
HeaderCount(h, name) == Cardinality({ i \in 1..Len(h) : h[i][1] = name })
HeaderValues(h, name) == { h[i][2] : i \in { j \in 1..Len(h) : h[j][1] = name } }

\* obj[name] = value: overwrite in place, or append a new key
SetKey(h, name, value) ==
  IF HasHeader(h, name)
  THEN [ i \in 1..Len(h) |-> IF h[i][1] = name THEN <<name, value>> ELSE h[i] ]
  ELSE Append(h, <<name, value>>)

\* { ...base, ...extra }
RECURSIVE Spread(_, _)
Spread(base, extra) ==
  IF extra = <<>> THEN base
  ELSE Spread(SetKey(base, Head(extra)[1], Head(extra)[2]), Tail(extra))

Bearer(token) == "Bearer " \o token.s

\* variant of withAuthHeaders that spreads the caller's headers last
withAuthHeadersCallerLast(st, headers) ==
  LET token == Or(st, Str(""))
  IN IF ~Truthy(token) THEN headers
     ELSE Spread(<< <<"Authorization", "Bearer " \o token.s>> >>, headers)

withAuthHeaders(st, headers) ==
  LET token == GetToken(st)
  IN IF ~Truthy(token) THEN headers
     ELSE Spread(headers, << <<"Authorization", Bearer(token)>> >>)

\* variant of apiFetch that attaches the credential whatever `auth` is
apiFetchHeadersAnyAuth(st, headers, auth) ==
  Spread(<< <<"Content-Type", "application/json">> >>, withAuthHeaders(st, headers))

\* headers of the fetch() call of apiFetch
apiFetchHeaders(st, headers, auth) ==
  LET finalHeaders == IF auth THEN withAuthHeaders(st, headers) ELSE headers
  IN Spread(<< <<"Content-Type", "application/json">> >>, finalHeaders)

\* headers of the fetch() call of uploadExcel and of downloadReportBlob
bareAuthHeaders(st) ==
  LET token == GetToken(st)
  IN IF Truthy(token) THEN << <<"Authorization", Bearer(token)>> >> ELSE <<>>

----------------------------------------------------------------------------
(* Responses.  The server is outside the repository: it may answer any     *)
(* request with any of these statuses and bodies.                          *)

Statuses == {200, 201, 400, 401, 500}

\* the statuses and bodies the running application is driven with
AppStatuses == {200, 401, 500}

BodyEmpty    == ""
BodyHtml     == "<html>Bad Gateway</html>"
BodyObject   == "{}"
BodyNull     == "null"
BodyError    == "{\"error\":\"bad input\"}"
BodyMessage  == "{\"message\":\"not allowed\"}"
BodyBlankErr == "{\"error\":\"\",\"message\":\"fallback\"}"
BodyBoth     == "{\"error\":\"first\",\"message\":\"second\"}"
BodyData     == "{\"data\":{\"x\":1}}"
BodyLogin    == "{\"data\":{\"token\":\"T2\",\"username\":\"amit\",\"is_admin\":true}}"
BodyUser     == "{\"data\":{\"username\":\"amit\",\"is_admin\":false}}"
BodyUpload   == "{\"data\":{\"upload_id\":\"U1\",\"filename\":\"f.xlsx\"}}"
BodyReport   == "{\"data\":{\"order_id\":\"O1\",\"report_name\":\"R1.xlsx\"}}"
BodySearch   == "{\"results\":[{\"order_id\":\"O1\"}]}"
BodyRows     == "{\"data\":[{\"username\":\"amit\"}]}"
BodySuggest1 == "{\"data\":{\"suggested_id\":\"S1\"}}"
BodySuggest2 == "{\"data\":{\"suggested_id\":\"S2\"}}"

\* the JSON text of an array of n orders, and of a list response carrying it
RECURSIVE OrdersItems(_)
OrdersItems(n) ==
  IF n = 0 THEN ""
  ELSE (IF n = 1 THEN "" ELSE OrdersItems(n - 1) \o ",")
       \o "{\"id\":" \o ToString(n) \o "}"

\* the numbers of rows a list response carries: none, one, and as many as the
\* per_page of the Orders page (20) and of the AdminOrders page (25)
RowCounts == {0, 1, 20, 25}
OrdersJson == [n \in RowCounts |-> "[" \o OrdersItems(n) \o "]"]
BodyOrders == [n \in RowCounts |-> "{\"data\":{\"orders\":" \o OrdersJson[n] \o "}}"]
ListBodies == { BodyOrders[n] : n \in RowCounts }

\* rows.length of an array of orders
Length(v) == CHOOSE n \in RowCounts : v.s = OrdersJson[n]

\* JSON texts of the values kept in sessionStorage
JsonUpload   == "{\"upload_id\":\"U1\",\"filename\":\"f.xlsx\"}"
JsonUpload0  == "{\"upload_id\":\"U0\",\"filename\":\"old.xlsx\"}"
JsonReport   == "{\"order_id\":\"O1\",\"report_name\":\"R1.xlsx\"}"

\* the values those texts denote
UploadData(id, name) ==
  Obj({ << <<"upload_id">>, Leaf("string", id) >>,
        << <<"filename">>, Leaf("string", name) >> })
ReportData ==
  Obj({ << <<"order_id">>, Leaf("string", "O1") >>,
        << <<"report_name">>, Leaf("string", "R1.xlsx") >> })

RawBodies == {BodyEmpty, BodyHtml, BodyObject, BodyNull, BodyError, BodyMessage,
              BodyBlankErr, BodyBoth, BodyData, BodyLogin, BodyUser}
AppBodies == {BodyEmpty, BodyError, BodyLogin, BodyUser}

\* JSON.parse of a body: [ok |-> parsed?, v |-> the value]
JsonParse(raw) ==
  CASE raw = BodyObject -> [ok |-> TRUE, v |-> EmptyObj]
    [] raw = BodyNull -> [ok |-> TRUE, v |-> Null]
    [] raw = BodyError ->
         [ok |-> TRUE, v |-> Obj({ << <<"error">>, Leaf("string", "bad input") >> })]
    [] raw = BodyMessage ->
         [ok |-> TRUE, v |-> Obj({ << <<"message">>, Leaf("string", "not allowed") >> })]
    [] raw = BodyBlankErr ->
         [ok |-> TRUE, v |-> Obj({ << <<"error">>, Leaf("string", "") >>,
                                   << <<"message">>, Leaf("string", "fallback") >> })]
    [] raw = BodyBoth ->
         [ok |-> TRUE, v |-> Obj({ << <<"error">>, Leaf("string", "first") >>,
                                   << <<"message">>, Leaf("string", "second") >> })]
    [] raw = BodyData ->
         [ok |-> TRUE, v |-> Obj({ << <<"data", "x">>, Leaf("number", "1") >> })]
    [] raw = BodyLogin ->
         [ok |-> TRUE, v |-> Obj({ << <<"data", "token">>, Leaf("string", "T2") >>,
                                   << <<"data", "username">>, Leaf("string", "amit") >>,
                                   << <<"data", "is_admin">>, Leaf("boolean", "true") >> })]
    [] raw = BodyUser ->
         [ok |-> TRUE, v |-> Obj({ << <<"data", "username">>, Leaf("string", "amit") >>,
                                   << <<"data", "is_admin">>, Leaf("boolean", "false") >> })]
    [] raw = BodyUpload ->
         [ok |-> TRUE, v |-> Obj({ << <<"data", "upload_id">>, Leaf("string", "U1") >>,
                                   << <<"data", "filename">>, Leaf("string", "f.xlsx") >> })]
    [] raw = BodyReport ->
         [ok |-> TRUE, v |-> Obj({ << <<"data", "order_id">>, Leaf("string", "O1") >>,
                                   << <<"data", "report_name">>, Leaf("string", "R1.xlsx") >> })]
    [] raw = BodySearch ->
         [ok |-> TRUE,
          v |-> Obj({ << <<"results">>, Leaf("array", "[{\"order_id\":\"O1\"}]") >> })]
    [] raw = BodyRows ->
         [ok |-> TRUE,
          v |-> Obj({ << <<"data">>, Leaf("array", "[{\"username\":\"amit\"}]") >> })]
    [] raw = BodySuggest1 ->
         [ok |-> TRUE, v |-> Obj({ << <<"data", "suggested_id">>, Leaf("string", "S1") >> })]
    [] raw = BodySuggest2 ->
         [ok |-> TRUE, v |-> Obj({ << <<"data", "suggested_id">>, Leaf("string", "S2") >> })]
    [] raw \in ListBodies ->
         [ok |-> TRUE,
          v |-> Obj({ << <<"data", "orders">>,
                         Leaf("array", OrdersJson[CHOOSE n \in RowCounts :
                                                    raw = BodyOrders[n]]) >> })]
    [] raw = JsonUpload -> [ok |-> TRUE, v |-> UploadData("U1", "f.xlsx")]
    [] raw = JsonUpload0 -> [ok |-> TRUE, v |-> UploadData("U0", "old.xlsx")]
    [] raw = JsonReport -> [ok |-> TRUE, v |-> ReportData]
    [] OTHER -> [ok |-> FALSE, v |-> Undefined]

\* JSON.stringify of the values the pages keep
JsonStringify(v) ==
  CASE v = Null -> BodyNull
    [] v = EmptyObj -> BodyObject
    [] v = UploadData("U1", "f.xlsx") -> JsonUpload
    [] v = UploadData("U0", "old.xlsx") -> JsonUpload0
    [] v = ReportData -> JsonReport
    [] OTHER -> "undefined"

\* res.json().catch(() => ({}))
jsonOrEmpty(raw) == LET p == JsonParse(raw) IN IF p.ok THEN p.v ELSE EmptyObj

\* res.ok
ResOk(status) == status >= 200 /\ status <= 299

StatusMsg(prefix, status) == Str(prefix \o " (" \o ToString(status) \o ")")

Resolved(v) == [ok |-> TRUE, msg |-> "", val |-> v, blob |-> ""]
Rejected(msg) == [ok |-> FALSE, msg |-> msg, val |-> Undefined, blob |-> ""]

\* variant of apiFetch that prefers the body's `message` to its `error`
apiFetchResultMessageFirst(status, raw) ==
  LET data == jsonOrEmpty(raw)
  IN IF ~ResOk(status)
     THEN Rejected(ToStr(Or(Get(data, "message"),
                            Or(Get(data, "error"), StatusMsg("Request failed", status)))))
     ELSE Resolved(data)

\* variant of apiFetch that returns `data.data` instead of the body
apiFetchResultUnwrapped(status, raw) ==
  LET data == jsonOrEmpty(raw)
  IN IF ~ResOk(status)
     THEN Rejected(ToStr(Or(Get(data, "error"),
                            Or(Get(data, "message"), StatusMsg("Request failed", status)))))
     ELSE Resolved(Get(data, "data"))

\* apiFetch after the response: parse, then throw new Error(msg) or return data
apiFetchResult(status, raw) ==
  LET data == jsonOrEmpty(raw)
  IN IF ~ResOk(status)
     THEN Rejected(ToStr(Or(Get(data, "error"),
                            Or(Get(data, "message"), StatusMsg("Request failed", status)))))
     ELSE Resolved(data)

\* uploadExcel after the response
uploadExcelResult(status, raw) ==
  LET data == jsonOrEmpty(raw)
  IN IF ~ResOk(status)
     THEN Rejected(ToStr(Or(Get(data, "error"), StatusMsg("Upload failed", status))))
     ELSE Resolved(data)

\* variant of downloadReportBlob that parses a successful response as JSON
downloadReportBlobResultParsed(status, raw) ==
  LET data == jsonOrEmpty(raw)
  IN IF ~ResOk(status)
     THEN Rejected(ToStr(Or(Get(data, "error"), StatusMsg("Download failed", status))))
     ELSE Resolved(data)

\* downloadReportBlob after the response
downloadReportBlobResult(status, raw) ==
  IF ~ResOk(status)
  THEN LET data == jsonOrEmpty(raw)
       IN Rejected(ToStr(Or(Get(data, "error"), StatusMsg("Download failed", status))))
  ELSE [ok |-> TRUE, msg |-> "", val |-> Undefined, blob |-> raw]

----------------------------------------------------------------------------
(* Routing and the authenticated-only guard *)

Routes == {"/login", "/dashboard", "/orders"}
Protected(r) == r # "/login"

\* variant of RequireAuth without the `if (loading)` branch
RequireAuthNoLoading(u, l) == IF ~Truthy(u) THEN "redirect" ELSE "outlet"

\* What RequireAuth renders for the context value {user, loading}
RequireAuth(u, l) ==
  IF l THEN "loading"
  ELSE IF ~Truthy(u) THEN "redirect"
  ELSE "outlet"

\* The route shown and the guard's output once rendering at location r has
\* settled: <Navigate to="/login"> of the guard, and the Login page's effect
\* `if (user) navigate("/dashboard")`.
View(r, u, l) ==
  IF Protected(r)
  THEN IF RequireAuth(u, l) = "redirect"
       THEN [route |-> "/login", guard |-> "redirect"]
       ELSE [route |-> r, guard |-> RequireAuth(u, l)]
  ELSE IF Truthy(u)
       THEN [route |-> "/dashboard", guard |-> RequireAuth(u, l)]
       ELSE [route |-> "/login",
             guard |-> IF route = "/login" /\ r = route THEN guard ELSE "unmounted"]

----------------------------------------------------------------------------
(* Bookkeeping shared by the actions *)

NoReq == [id |-> 0, op |-> "none", auth |-> FALSE, headers |-> <<>>,
          phase |-> "none", status |-> 0, orphan |-> FALSE]
NoRes == [ok |-> FALSE, msg |-> "", val |-> Undefined, blob |-> ""]

Step(kind, req, status, raw, res) ==
  [kind |-> kind, op |-> req.op, status |-> status, ok |-> res.ok, raw |-> raw]

\* calls made by the Orders page: "page" is load(), "download" is onDownload()
PageOps == {"page", "download"}

\* record the step just taken
Log(kind, req, status, raw, res) ==
  /\ last' = Step(kind, req, status, raw, res)
  /\ expired' = IF kind = "response"
                THEN (status = 401 /\ req.op \in PageOps
                        /\ Truthy(GetToken(store)) /\ Truthy(user))
                     \/ expired
                ELSE IF kind \in {"settled", "failed"}
                     THEN expired /\ ~Truthy(GetToken(store'))
                     ELSE expired
  /\ call' = call
  /\ session' = session
  /\ UNCHANGED <<drafts, page>>

\* `call` when no client function has been called directly
NoCall == [fn |-> "none", status |-> 0, raw |-> "", auth |-> FALSE, arg |-> Undefined,
           headers |-> <<>>, before |-> Undefined, after |-> Undefined,
           out |-> <<>>, res |-> NoRes, got |-> Undefined]

\* `session` when no session is under way
NoSession == [phase |-> "none", token |-> ""]

\* the upload workflows, and the sessionStorage key of each one's draft
Workflows == {"new", "additional"}
UPLOAD_KEY(w) == IF w = "new" THEN "sale_order_upload_new" ELSE "sale_order_upload_additional"
DraftKeys == { UPLOAD_KEY(w) : w \in Workflows }

\* sessionStorage with no draft, and the state of a page that keeps none
NoDrafts == [k \in DraftKeys |-> Null]
NoPage == [error |-> "", busy |-> FALSE, file |-> FALSE,
           upload |-> Undefined, result |-> Null, q |-> "", results |-> Arr("[]"),
           data |-> Null, rows |-> Arr("[]"),
           suggested |-> "", orderId |-> "", seen |-> ""]

\* Requests whose caller is a page component that has been unmounted
Orphaned(S) ==
  { IF x.op \in PageOps \cup {"login"} THEN [x EXCEPT !.orphan = TRUE] ELSE x : x \in S }

\* React state of AuthProvider after setUser(u) / setLoading(l); a changed
\* state re-renders the provider, which re-reads the token and schedules the
\* [refresh, token] effect when the token differs from the last render's.
ProviderSet(u, fresh, l, pend) ==
  LET changed == fresh \/ u # user \/ l # loading
      tok == GetToken(store').s
  IN /\ user' = u
     /\ loading' = l
     /\ depToken' = IF changed THEN tok ELSE depToken
     /\ effectPending' = (pend \/ (changed /\ tok # depToken))

ProviderSame == UNCHANGED <<user, loading, depToken, effectPending>>

\* Render at location r; page components that are unmounted or remounted
\* start again from their initial state, the others get the given state.
Screen(r, remount, lb, le, pe, reqs) ==
  LET v == View(r, user', loading')
      gone == remount \/ v.route # route
  IN /\ route' = v.route
     /\ guard' = v.guard
     /\ loginBusy' = IF gone THEN FALSE ELSE lb
     /\ loginError' = IF gone THEN "" ELSE le
     /\ pageError' = IF gone THEN "" ELSE pe
     /\ inflight' = IF gone THEN Orphaned(reqs) ELSE reqs

CanIssue == nextId < MaxRequests

\* Outstanding requests of one operation are told apart by a slot number
FreeSlot(op) ==
  CHOOSE n \in 1..(Cardinality(inflight) + 1) :
    /\ \A x \in inflight : ~(x.op = op /\ x.id = n)
    /\ \A k \in 1..(n - 1) : \E x \in inflight : x.op = op /\ x.id = k

NewReq(op, auth, headers) ==
  [id |-> FreeSlot(op), op |-> op, auth |-> auth, headers |-> headers,
   phase |-> "fetch", status |-> 0, orphan |-> FALSE]

----------------------------------------------------------------------------
(* Initial state: the application has just been loaded at some location,   *)
(* with whatever token an earlier session left in localStorage.            *)

Init ==
  /\ store \in {Null, Str("T1")}
  /\ user = Null
  /\ loading = TRUE
  /\ depToken = GetToken(store).s
  /\ effectPending = TRUE
  /\ route \in Routes
  /\ guard = IF Protected(route) THEN RequireAuth(Null, TRUE) ELSE "unmounted"
  /\ loginBusy = FALSE
  /\ loginError = ""
  /\ pageError = ""
  /\ inflight = {}
  /\ nextId = 0
  /\ expired = FALSE
  /\ last = Step("init", NoReq, 0, "", NoRes)
  /\ call = NoCall
  /\ session = NoSession
  /\ drafts = NoDrafts
  /\ page = NoPage

----------------------------------------------------------------------------
(* AuthProvider: the effect that calls refresh() *)

\* refresh() up to its first await
RunEffect ==
  /\ effectPending
  /\ IF ~Truthy(GetToken(store))
     THEN /\ store' = store
          /\ ProviderSet(Null, FALSE, FALSE, FALSE)
          /\ Screen(route, FALSE, loginBusy, loginError, pageError, inflight)
          /\ nextId' = nextId
          /\ Log("refresh", NoReq, 0, "", NoRes)
     ELSE /\ CanIssue
          /\ LET req == NewReq("me", TRUE, apiFetchHeaders(store, <<>>, TRUE))
             IN /\ inflight' = inflight \cup {req}
                /\ Log("issue", req, 0, "", NoRes)
          /\ nextId' = nextId + 1
          /\ effectPending' = FALSE
          /\ UNCHANGED <<store, user, loading, depToken, route, guard,
                         loginBusy, loginError, pageError>>

\* variant of refresh() that calls setLoading(false) at the end of the try
\* instead of in a finally
refreshSettledNoFinally(r, res, kind, raw) ==
  /\ r.op = "me"
  /\ store' = IF res.ok THEN store ELSE ClearToken(store)
  /\ LET u == IF res.ok THEN Or(Get(res.val, "data"), Null) ELSE Null
     IN ProviderSet(u, res.ok /\ u.k = "object", IF res.ok THEN FALSE ELSE loading,
                    effectPending)
  /\ Screen(route, FALSE, loginBusy, loginError, pageError, inflight \ {r})
  /\ nextId' = nextId
  /\ Log(kind, r, r.status, raw, res)

\* refresh() after `await api.me()`: try / catch / finally
refreshSettled(r, res, kind, raw) ==
  /\ r.op = "me"
  /\ store' = IF res.ok THEN store ELSE ClearToken(store)
  /\ LET u == IF res.ok THEN Or(Get(res.val, "data"), Null) ELSE Null
     IN ProviderSet(u, res.ok /\ u.k = "object", FALSE, effectPending)
  /\ Screen(route, FALSE, loginBusy, loginError, pageError, inflight \ {r})
  /\ nextId' = nextId
  /\ Log(kind, r, r.status, raw, res)

----------------------------------------------------------------------------
(* Login page and AuthProvider.login *)

\* { username: res?.data?.username, is_admin: !!res?.data?.is_admin }
MkUser(d) ==
  Obj({ << <<"username">>, Leaf(Get(d, "username").k, Get(d, "username").s) >>,
        << <<"is_admin">>, Leaf("boolean", Bool(Truthy(Get(d, "is_admin"))).s) >> })

\* Login.onSubmit up to `await login(...)`
LoginSubmit ==
  /\ route = "/login"
  /\ ~loginBusy
  /\ CanIssue
  /\ loginError' = ""
  /\ loginBusy' = TRUE
  /\ LET req == NewReq("login", FALSE, apiFetchHeaders(store, <<>>, FALSE))
     IN /\ inflight' = inflight \cup {req}
        /\ Log("issue", req, 0, "", NoRes)
  /\ nextId' = nextId + 1
  /\ UNCHANGED <<store, user, loading, depToken, effectPending, route, guard, pageError>>

\* AuthProvider.login after `await api.login(...)`, then the rest of onSubmit
loginSettled(r, res, kind, raw) ==
  /\ r.op = "login"
  /\ LET d == Get(res.val, "data")
         t == Get(d, "token")
         msg == IF res.ok THEN "Token missing in response" ELSE res.msg
     IN IF res.ok /\ Truthy(t)
        THEN /\ store' = SetToken(store, t)
             /\ ProviderSet(MkUser(d), TRUE, loading, effectPending)
             /\ Screen("/dashboard", FALSE, IF r.orphan THEN loginBusy ELSE FALSE,
                       loginError, pageError, inflight \ {r})
        ELSE /\ store' = store
             /\ ProviderSame
             /\ Screen(route, FALSE,
                       IF r.orphan THEN loginBusy ELSE FALSE,
                       IF r.orphan THEN loginError
                       ELSE IF msg # "" THEN msg ELSE "Login failed",
                       pageError, inflight \ {r})
  /\ nextId' = nextId
  /\ Log(kind, r, r.status, raw, res)

----------------------------------------------------------------------------
(* Layout: the Logout control, and AuthProvider.logout *)

LogoutClick ==
  /\ guard = "outlet"
  /\ CanIssue
  /\ LET req == NewReq("logout", TRUE, apiFetchHeaders(store, <<>>, TRUE))
     IN /\ inflight' = inflight \cup {req}
        /\ Log("issue", req, 0, "", NoRes)
  /\ nextId' = nextId + 1
  /\ UNCHANGED <<store, user, loading, depToken, effectPending, route, guard,
                 loginBusy, loginError, pageError>>

\* variant of logout that puts the provider back into its loading state
logoutSettledReloading(r, res, kind, raw) ==
  /\ r.op = "logout"
  /\ store' = ClearToken(store)
  /\ ProviderSet(Null, FALSE, TRUE, effectPending)
  /\ Screen("/login", FALSE, loginBusy, loginError, pageError, inflight \ {r})
  /\ nextId' = nextId
  /\ Log(kind, r, r.status, raw, res)

\* variant of the logout handler without the try / catch around api.logout()
logoutSettledUncaught(r, res, kind, raw) ==
  /\ r.op = "logout"
  /\ store' = IF res.ok THEN ClearToken(store) ELSE store
  /\ ProviderSet(IF res.ok THEN Null ELSE user, FALSE, loading, effectPending)
  /\ Screen(IF res.ok THEN "/login" ELSE route, FALSE, loginBusy, loginError,
            pageError, inflight \ {r})
  /\ nextId' = nextId
  /\ Log(kind, r, r.status, raw, res)

\* after `await api.logout()` (errors ignored): logout(); navigate("/login")
logoutSettled(r, res, kind, raw) ==
  /\ r.op = "logout"
  /\ store' = ClearToken(store)
  /\ ProviderSet(Null, FALSE, loading, effectPending)
  /\ Screen("/login", FALSE, loginBusy, loginError, pageError, inflight \ {r})
  /\ nextId' = nextId
  /\ Log(kind, r, r.status, raw, res)

----------------------------------------------------------------------------
(* The Orders page calling the API *)

PageHeaders(op) ==
  IF op = "page" THEN apiFetchHeaders(store, <<>>, TRUE) ELSE bareAuthHeaders(store)

\* load(p) up to `await api.ordersList(...)`, or onDownload(reportName) up to
\* `await api.downloadReportBlob(...)`
PageCall(op) ==
  /\ guard = "outlet"
  /\ route = "/orders"
  /\ CanIssue
  /\ pageError' = IF op = "page" THEN "" ELSE pageError
  /\ LET req == NewReq(op, TRUE, PageHeaders(op))
     IN /\ inflight' = inflight \cup {req}
        /\ Log("issue", req, 0, "", NoRes)
  /\ nextId' = nextId + 1
  /\ UNCHANGED <<store, user, loading, depToken, effectPending, route, guard,
                 loginBusy, loginError>>

\* the catch of load / onDownload: setError(e?.message || <fallback>)
pageSettled(r, res, kind, raw) ==
  /\ r.op \in PageOps
  /\ store' = store
  /\ ProviderSame
  /\ Screen(route, FALSE, loginBusy, loginError,
            IF r.orphan \/ res.ok THEN pageError
            ELSE IF res.msg # "" THEN res.msg
            ELSE IF r.op = "page" THEN "Failed to load orders" ELSE "Download failed",
            inflight \ {r})
  /\ nextId' = nextId
  /\ Log(kind, r, r.status, raw, res)

----------------------------------------------------------------------------
(* Navigation by the user: a NavLink, or a location typed in the address bar *)

UserNavigate(r) ==
  /\ r # route
  /\ store' = store
  /\ ProviderSame
  /\ Screen(r, TRUE, loginBusy, loginError, pageError, inflight)
  /\ nextId' = nextId
  /\ Log("navigate", [NoReq EXCEPT !.op = r], 0, "", NoRes)

----------------------------------------------------------------------------
(* The network *)

\* variant of apiFetch that keeps the token on a 401
apiFetchOnResponseKeep(st, status) == st

\* variant of apiFetch that clears the token on every error status
apiFetchOnResponseAnyError(st, status) == IF status >= 400 THEN ClearToken(st) ELSE st

\* `if (res.status === 401) clearToken()` of each request operation
apiFetchOnResponse(st, status) == IF status = 401 THEN ClearToken(st) ELSE st
uploadExcelOnResponse(st, status) == IF status = 401 THEN ClearToken(st) ELSE st
downloadReportBlobOnResponse(st, status) == IF status = 401 THEN ClearToken(st) ELSE st

OnResponse(op, st, status) ==
  CASE op = "upload" -> uploadExcelOnResponse(st, status)
    [] op = "download" -> downloadReportBlobOnResponse(st, status)
    [] OTHER -> apiFetchOnResponse(st, status)

\* `await fetch(...)` resolves with a response of some status
Response(r, status) ==
  /\ r \in inflight
  /\ r.phase = "fetch"
  /\ store' = OnResponse(r.op, store, status)
  /\ inflight' = (inflight \ {r}) \cup {[r EXCEPT !.phase = "body", !.status = status]}
  /\ Log("response", r, status, "", NoRes)
  /\ UNCHANGED <<user, loading, depToken, effectPending, route, guard,
                 loginBusy, loginError, pageError, nextId>>

Result(op, status, raw) ==
  CASE op = "upload" -> uploadExcelResult(status, raw)
    [] op = "download" -> downloadReportBlobResult(status, raw)
    [] OTHER -> apiFetchResult(status, raw)

\* the caller's continuation once the request operation has settled
Settled(r, res, kind, raw) ==
  \/ refreshSettled(r, res, kind, raw)
  \/ loginSettled(r, res, kind, raw)
  \/ logoutSettled(r, res, kind, raw)
  \/ pageSettled(r, res, kind, raw)

\* `await fetch(...)` rejects: the request operation rejects with that error
FetchFailed(r) ==
  /\ r \in inflight
  /\ r.phase = "fetch"
  /\ Settled(r, Rejected("Failed to fetch"), "failed", "")

\* `await res.json()` / `await res.blob()` completes with the body read
BodyRead(r, raw) ==
  /\ r \in inflight
  /\ r.phase = "body"
  /\ Settled(r, Result(r.op, r.status, raw), "settled", raw)

Next ==
  \/ RunEffect
  \/ LoginSubmit
  \/ LogoutClick
  \/ \E op \in PageOps : PageCall(op)
  \/ \E r \in Routes : UserNavigate(r)
  \/ \E r \in inflight, status \in AppStatuses : Response(r, status)
  \/ \E r \in inflight : FetchFailed(r)
  \/ \E r \in inflight, raw \in AppBodies : BodyRead(r, raw)

Spec == Init /\ [][Next]_vars

\* The same application under React's scheduling: a pending effect runs
\* before the next user event is handled, the effect itself is not delayed for
\* ever, and every issued request is eventually answered or fails.
UserAct ==
  \/ LoginSubmit
  \/ LogoutClick
  \/ \E op \in PageOps : PageCall(op)
  \/ \E r \in Routes : UserNavigate(r)

Network ==
  \/ \E r \in inflight, status \in AppStatuses : Response(r, status)
  \/ \E r \in inflight : FetchFailed(r)
  \/ \E r \in inflight, raw \in AppBodies : BodyRead(r, raw)

LiveNext ==
  \/ RunEffect
  \/ ~effectPending /\ UserAct
  \/ Network

LiveSpec ==
  Init /\ [][LiveNext]_vars /\ WF_vars(RunEffect) /\ WF_vars(Network)

----------------------------------------------------------------------------
(* The token store and the request operations called directly, one call at *)
(* a time, on every stored token, argument and response of the bounded     *)
(* input sets.                                                             *)

\* arguments given to setToken
SetArgs == { Str(t) : t \in Tokens } \cup {Str(""), Undefined, Null}

\* `headers` options given to apiFetch
CallerHeaders ==
  { <<>>,
    << <<"Accept", "text/csv">> >>,
    << <<"Authorization", "Basic abc">> >>,
    << <<"X-Trace", "1">>, <<"Authorization", "Bearer stale">> >> }

ClientFns == {"apiFetch", "uploadExcel", "downloadReportBlob"}

OpOf(fn) ==
  CASE fn = "uploadExcel" -> "upload"
    [] fn = "downloadReportBlob" -> "download"
    [] OTHER -> "page"

ClientInit ==
  /\ store \in {Null} \cup { Str(t) : t \in Tokens }
  /\ user = Null
  /\ loading = TRUE
  /\ depToken = GetToken(store).s
  /\ effectPending = TRUE
  /\ route = "/login"
  /\ guard = "unmounted"
  /\ loginBusy = FALSE
  /\ loginError = ""
  /\ pageError = ""
  /\ inflight = {}
  /\ nextId = 0
  /\ expired = FALSE
  /\ last = Step("init", NoReq, 0, "", NoRes)
  /\ call = NoCall
  /\ session = NoSession
  /\ drafts = NoDrafts
  /\ page = NoPage

AppSame == UNCHANGED <<user, loading, depToken, effectPending, route, guard,
                       loginBusy, loginError, pageError, inflight, nextId,
                       expired, last, drafts, page>>

\* the token of a login response body, "" when it has none
TokenOf(raw) ==
  LET t == Get(Get(jsonOrEmpty(raw), "data"), "token")
  IN IF Truthy(t) THEN ToStr(t) ELSE ""

\* a direct call that sends a request with auth: true
IsAuthCall(c) == c.fn \in ClientFns /\ c.status = 0 /\ c.auth

\* `session` after the direct call recorded in c: a successful login starts a
\* session; me() sent, me() answered with the user, logout() and a further
\* protected call advance it, in that order; any other call abandons it.
Track(c) ==
  CASE c.fn = "login" /\ c.res.ok ->
         [phase |-> "loggedIn", token |-> TokenOf(c.raw)]
    [] session.phase = "loggedIn" /\ c.fn = "apiFetch" /\ IsAuthCall(c)
         /\ c.headers = <<>> ->
         [session EXCEPT !.phase = "meSent"]
    [] session.phase = "meSent" /\ c.fn = "apiFetch" /\ c.status = 200
         /\ c.raw = BodyUser ->
         [session EXCEPT !.phase = "meReturned"]
    [] session.phase = "meReturned" /\ c.fn = "logout" ->
         [session EXCEPT !.phase = "loggedOut"]
    [] session.phase = "loggedOut" /\ IsAuthCall(c) ->
         [session EXCEPT !.phase = "callAfterLogout"]
    [] OTHER -> NoSession

CallGetToken ==
  /\ store' = store
  /\ call' = [NoCall EXCEPT !.fn = "getToken", !.before = GetToken(store),
                            !.got = GetToken(store)]
  /\ session' = Track(call')
  /\ AppSame

CallSetToken(token) ==
  /\ store' = SetToken(store, token)
  /\ call' = [NoCall EXCEPT !.fn = "setToken", !.arg = token,
                            !.before = GetToken(store), !.got = GetToken(store')]
  /\ session' = Track(call')
  /\ AppSame

CallClearToken ==
  /\ store' = ClearToken(store)
  /\ call' = [NoCall EXCEPT !.fn = "clearToken", !.before = GetToken(store),
                            !.got = GetToken(store')]
  /\ session' = Track(call')
  /\ AppSame

\* a request operation up to its fetch(): the headers it sends
CallClient(fn, headers, auth) ==
  /\ fn # "apiFetch" => headers = <<>> /\ auth
  /\ store' = store
  /\ call' = [NoCall EXCEPT !.fn = fn, !.headers = headers, !.auth = auth,
                            !.before = GetToken(store), !.got = GetToken(store),
                            !.out = IF fn = "apiFetch"
                                    THEN apiFetchHeaders(store, headers, auth)
                                    ELSE bareAuthHeaders(store)]
  /\ session' = Track(call')
  /\ AppSame

\* a request operation from the response on: its handling of the status, and
\* how it settles
RespondClient(fn, status, raw) ==
  /\ store' = OnResponse(OpOf(fn), store, status)
  /\ call' = [NoCall EXCEPT !.fn = fn, !.status = status, !.raw = raw,
                            !.before = GetToken(store), !.got = GetToken(store'),
                            !.res = Result(OpOf(fn), status, raw)]
  /\ session' = Track(call')
  /\ AppSame

\* variant of AuthProvider.login that calls setUser before it tests the token
CallLoginUserFirst(status, raw) ==
  LET res == apiFetchResult(status, raw)
      st == apiFetchOnResponse(store, status)
      d == Get(res.val, "data")
      t == Get(d, "token")
      done == res.ok /\ Truthy(t)
  IN /\ store' = IF done THEN SetToken(st, t) ELSE st
     /\ user' = IF res.ok THEN MkUser(d) ELSE user
     /\ call' = [NoCall EXCEPT !.fn = "login", !.status = status, !.raw = raw,
                               !.out = apiFetchHeaders(store, <<>>, FALSE),
                               !.before = GetToken(store), !.got = GetToken(store'),
                               !.res = IF res.ok /\ ~Truthy(t)
                                       THEN Rejected("Token missing in response")
                                       ELSE res]
     /\ session' = Track(call')
     /\ UNCHANGED <<loading, depToken, effectPending, route, guard, loginBusy,
                    loginError, pageError, inflight, nextId, expired, last,
                    drafts, page>>

\* AuthProvider.login called directly, the server answering api.login with the
\* given status and body
CallLogin(status, raw) ==
  LET res == apiFetchResult(status, raw)
      st == apiFetchOnResponse(store, status)
      d == Get(res.val, "data")
      t == Get(d, "token")
      done == res.ok /\ Truthy(t)
  IN /\ store' = IF done THEN SetToken(st, t) ELSE st
     /\ user' = IF done THEN MkUser(d) ELSE user
     /\ call' = [NoCall EXCEPT !.fn = "login", !.status = status, !.raw = raw,
                               !.out = apiFetchHeaders(store, <<>>, FALSE),
                               !.before = GetToken(store), !.got = GetToken(store'),
                               !.res = IF res.ok /\ ~Truthy(t)
                                       THEN Rejected("Token missing in response")
                                       ELSE res]
     /\ session' = Track(call')
     /\ UNCHANGED <<loading, depToken, effectPending, route, guard, loginBusy,
                    loginError, pageError, inflight, nextId, expired, last,
                    drafts, page>>

\* AuthProvider.logout called directly
CallLogout ==
  /\ store' = ClearToken(store)
  /\ user' = Null
  /\ call' = [NoCall EXCEPT !.fn = "logout", !.before = GetToken(store),
                            !.got = GetToken(store')]
  /\ session' = Track(call')
  /\ UNCHANGED <<loading, depToken, effectPending, route, guard, loginBusy,
                 loginError, pageError, inflight, nextId, expired, last,
                 drafts, page>>

ClientNext ==
  \/ CallGetToken
  \/ \E token \in SetArgs : CallSetToken(token)
  \/ CallClearToken
  \/ \E fn \in ClientFns, headers \in CallerHeaders, auth \in BOOLEAN :
        CallClient(fn, headers, auth)
  \/ \E fn \in ClientFns, status \in Statuses, raw \in RawBodies :
        RespondClient(fn, status, raw)
  \/ \E status \in Statuses, raw \in RawBodies : CallLogin(status, raw)
  \/ CallLogout

ClientSpec == ClientInit /\ [][ClientNext]_vars

----------------------------------------------------------------------------
(* The protected pages of a signed-in user: the two upload workflows.      *)
(* Each page component keeps its state while it is mounted; a request it   *)
(* issued outlives it, and the continuation of that request still runs.    *)

\* getNewUploadState / getAdditionalUploadState
getUploadState(d, w) ==
  LET p == JsonParse(Or(d[UPLOAD_KEY(w)], Str(BodyNull)).s)
  IN IF p.ok THEN p.v ELSE Null

\* variant of setNewUploadState / setAdditionalUploadState that writes one
\* key shared by both workflows
setUploadStateSharedKey(d, w, state) ==
  [k \in DraftKeys |-> Str(JsonStringify(state))]

\* setNewUploadState / setAdditionalUploadState
setUploadState(d, w, state) ==
  [d EXCEPT ![UPLOAD_KEY(w)] = Str(JsonStringify(state))]

UploadRoute(w) == IF w = "new" THEN "/new/upload" ELSE "/additional/upload"
DetailsRoute(w) == IF w = "new" THEN "/new/details" ELSE "/additional/details"
PageRoutes ==
  { UploadRoute(w) : w \in Workflows } \cup { DetailsRoute(w) : w \in Workflows }
    \cup {"/search", "/dashboard", "/admin/users", "/admin/sessions", "/issue-order-id"}

\* the workflow a route belongs to
WorkflowOf(r) == IF r \in {"/new/upload", "/new/details"} THEN "new" ELSE "additional"
IsDetails(r) == r \in { DetailsRoute(w) : w \in Workflows }
IsUpload(r) == r \in { UploadRoute(w) : w \in Workflows }

\* upload?.upload_id of a draft
UploadId(upload) == Get(upload, "upload_id")

\* variant of the details pages without their missing-draft effect
LandAnywhere(r, d) == r

\* Where rendering at location r ends up: a details page whose draft has no
\* upload_id navigates to its upload page.
Land(r, d) ==
  IF IsDetails(r) /\ ~Truthy(UploadId(getUploadState(d, WorkflowOf(r))))
  THEN UploadRoute(WorkflowOf(r))
  ELSE r

\* the request a page's mount effect issues: Dashboard, AdminUsers,
\* AdminSessions (load) and IssueOrderId (load, whose first call is the status)
MountOp(r) ==
  CASE r = "/dashboard" -> "stats"
    [] r = "/admin/users" -> "users"
    [] r = "/admin/sessions" -> "sessions"
    [] r = "/issue-order-id" -> "status"
    [] OTHER -> "none"

\* State of a page component just mounted at r, its mount effect run:
\* a details page has read its draft, AdminSessions.load has set busy
Fresh(r, d) ==
  [NoPage EXCEPT !.upload = IF IsDetails(r) THEN getUploadState(d, WorkflowOf(r))
                            ELSE Undefined,
                 !.busy = (r = "/admin/sessions")]

\* the slot number of a new request of operation op among the requests S
Slot(S, op) ==
  CHOOSE n \in 1..(Cardinality(S) + 1) :
    /\ \A x \in S : ~(x.op = op /\ x.id = n)
    /\ \A k \in 1..(n - 1) : \E x \in S : x.op = op /\ x.id = k

\* the requests issued by the mount effect of the page at r
MountReqs(r, S, st) ==
  IF MountOp(r) = "none" THEN {}
  ELSE { [id |-> Slot(S, MountOp(r)), op |-> MountOp(r), from |-> r, auth |-> TRUE,
          headers |-> apiFetchHeaders(st, <<>>, TRUE), body |-> "mount",
          phase |-> "fetch", status |-> 0, orphan |-> FALSE, left |-> FALSE] }

\* requests of unmounted page components
Abandon(S) == { [x EXCEPT !.orphan = TRUE] : x \in S }

\* Navigation to r with sessionStorage d, n requests having been issued: the
\* page at `route` re-renders with state pg when r is where it already is,
\* otherwise it is unmounted and the page at r is mounted.
Go(r, d, pg, reqs, n) ==
  IF r = route /\ Land(r, d) = r
  THEN /\ route' = route
       /\ page' = IF IsDetails(r)
                  THEN [pg EXCEPT !.upload = getUploadState(d, WorkflowOf(r))]
                  ELSE pg
       /\ inflight' = reqs
       /\ nextId' = n
  ELSE LET mount == MountReqs(Land(r, d), Abandon(reqs), store')
       IN /\ n + Cardinality(mount) <= MaxRequests
          /\ route' = Land(r, d)
          /\ page' = Fresh(Land(r, d), d)
          /\ inflight' = Abandon(reqs) \cup mount
          /\ nextId' = n + Cardinality(mount)

\* the page at `route` re-renders after a change of its state
Rerender(d, pg, reqs, n) == Go(route, d, pg, reqs, n)

PageStatuses == {200, 500}
\* the bodies each kind of request is answered with
BodiesFor(op) ==
  {BodyEmpty} \cup
    CASE op = "upload" -> {BodyUpload, BodyReport}
      [] op = "generate" -> {BodyReport}
      [] op = "search" -> {BodySearch}
      [] op = "stats" -> {BodyData}
      [] op \in {"users", "sessions"} -> {BodyRows}
      [] op = "login" -> {BodyLogin}
      [] op = "status" -> {BodySuggest1, BodySuggest2}
      [] OTHER -> {}

PageReq(op, headers, body) ==
  [id |-> FreeSlot(op), op |-> op, from |-> route, auth |-> TRUE,
   headers |-> headers, body |-> body, phase |-> "fetch", status |-> 0,
   orphan |-> FALSE, left |-> FALSE]

PageStep(kind, r, raw, res) ==
  [kind |-> kind, op |-> r.op, from |-> r.from, orphan |-> r.orphan,
   status |-> r.status, ok |-> res.ok, raw |-> raw, body |-> r.body,
   left |-> r.left]

\* a step that is not about a request
UserStep(kind, what) ==
  [kind |-> kind, op |-> what, from |-> "", orphan |-> FALSE,
   status |-> 0, ok |-> FALSE, raw |-> "", body |-> "", left |-> FALSE]

\* what the pages leave alone
NetFrame ==
  UNCHANGED <<loading, depToken, effectPending, guard, loginBusy,
              loginError, pageError, expired, call, session>>
PageFrame == user' = user /\ NetFrame

PagesInit ==
  /\ drafts \in {NoDrafts, [NoDrafts EXCEPT ![UPLOAD_KEY("new")] = Str(JsonUpload0)]}
  /\ \/ /\ store = Str("T1")
        /\ user = MkUser(Get(jsonOrEmpty(BodyLogin), "data"))
        /\ \E r \in PageRoutes : route = Land(r, drafts)
        /\ guard = "outlet"
     \/ /\ store = Null
        /\ user = Null
        /\ route = "/login"
        /\ guard = "unmounted"
  /\ loading = FALSE
  /\ depToken = GetToken(store).s
  /\ effectPending = FALSE
  /\ page = Fresh(route, drafts)
  /\ loginBusy = FALSE
  /\ loginError = ""
  /\ pageError = ""
  /\ inflight = MountReqs(route, {}, store)
  /\ nextId = Cardinality(inflight)
  /\ expired = FALSE
  /\ last = UserStep("init", "none")
  /\ call = NoCall
  /\ session = NoSession

\* issue a request from the mounted page
Issue(req) ==
  /\ CanIssue
  /\ inflight' = inflight \cup {req}
  /\ nextId' = nextId + 1
  /\ last' = PageStep("issue", req, "", NoRes)

\* setFile(e.target.files?.[0] || null) of the upload pages
setFile(chosen) ==
  /\ IsUpload(route)
  /\ page.file # chosen
  /\ page' = [page EXCEPT !.file = chosen]
  /\ last' = UserStep("input", "file")
  /\ UNCHANGED <<store, drafts, route, inflight, nextId>>
  /\ PageFrame

\* NewUpload.onUpload / AdditionalUpload.onUpload up to `await api.uploadExcel`
onUpload(w) ==
  /\ route = UploadRoute(w)
  /\ page.file
  /\ ~page.busy
  /\ page' = [page EXCEPT !.error = "", !.busy = TRUE]
  /\ Issue(PageReq("upload", bareAuthHeaders(store), "file"))
  /\ UNCHANGED <<store, drafts, route>>
  /\ PageFrame

\* variant of onUpload's `res?.data || null` that keeps the whole response
uploadDraftWhole(res) == res.val

\* res?.data || null
uploadDraft(res) == Or(Get(res.val, "data"), Null)

\* onUpload after `await api.uploadExcel(file)`
uploadSettled(r, res) ==
  /\ r.op = "upload"
  /\ IF res.ok
     THEN /\ drafts' = setUploadState(drafts, WorkflowOf(r.from), uploadDraft(res))
          /\ Go(DetailsRoute(WorkflowOf(r.from)), drafts',
                IF r.orphan THEN page ELSE [page EXCEPT !.busy = FALSE],
                inflight \ {r}, nextId)
     ELSE /\ drafts' = drafts
          /\ route' = route
          /\ inflight' = inflight \ {r}
          /\ nextId' = nextId
          /\ page' = IF r.orphan THEN page
                     ELSE [page EXCEPT !.busy = FALSE,
                                       !.error = IF res.msg # "" THEN res.msg
                                                 ELSE "Upload failed"]

\* NewDetails.onGenerate / AdditionalDetails.onGenerate up to
\* `await api.generateReport`
onGenerate(w) ==
  /\ route = DetailsRoute(w)
  /\ ~page.busy
  /\ Truthy(UploadId(page.upload))
  /\ page' = [page EXCEPT !.error = "", !.busy = TRUE]
  /\ Issue(PageReq("generate", apiFetchHeaders(store, <<>>, TRUE),
                   ToStr(UploadId(page.upload))))
  /\ UNCHANGED <<store, drafts, route>>
  /\ PageFrame

\* result?.report_name
ReportName(result) == Get(result, "report_name")

\* onGenerate after `await api.generateReport(...)`.  On success the draft is
\* cleared; the mounted page re-renders, starts the download of the new
\* report (NewDetails) and, its draft now being empty, leaves for its upload
\* page.
generateSettled(r, res) ==
  /\ r.op = "generate"
  /\ LET w == WorkflowOf(r.from)
         result == Or(Get(res.val, "data"), Null)
         auto == ~r.orphan /\ w = "new" /\ Truthy(ReportName(result))
         dl == [PageReq("download", bareAuthHeaders(store), ToStr(ReportName(result)))
                  EXCEPT !.id = 1 + Cardinality({ x \in inflight : x.op = "download" })]
     IN IF res.ok
        THEN /\ drafts' = setUploadState(drafts, w, Null)
             /\ auto => CanIssue
             /\ IF r.orphan
                THEN /\ route' = route
                     /\ page' = page
                     /\ inflight' = inflight \ {r}
                     /\ nextId' = nextId
                ELSE Rerender(drafts',
                              [page EXCEPT !.busy = FALSE, !.result = result],
                              (inflight \ {r}) \cup (IF auto THEN {dl} ELSE {}),
                              IF auto THEN nextId + 1 ELSE nextId)
        ELSE /\ drafts' = drafts
             /\ nextId' = nextId
             /\ route' = route
             /\ inflight' = inflight \ {r}
             /\ page' = IF r.orphan THEN page
                        ELSE [page EXCEPT !.busy = FALSE,
                                          !.error = IF res.msg # "" THEN res.msg
                                                    ELSE "Failed to generate report"]

\* NewDetails.downloadReport after `await api.downloadReportBlob(reportName)`
downloadSettled(r, res) ==
  /\ r.op = "download"
  /\ drafts' = drafts
  /\ route' = route
  /\ nextId' = nextId
  /\ inflight' = inflight \ {r}
  /\ page' = IF r.orphan \/ res.ok THEN page
             ELSE [page EXCEPT !.error = IF res.msg # "" THEN res.msg
                                         ELSE "Download failed"]

\* texts typed into the Search field
Queries == {"", " a ", "ab"}

\* String.prototype.trim, on those texts
Trim(text) == IF text = " a " THEN "a" ELSE text

\* setQ(e.target.value) of the Search page
setQ(text) ==
  /\ route = "/search"
  /\ page.q # text
  /\ page' = [page EXCEPT !.q = text]
  /\ last' = UserStep("input", "q")
  /\ UNCHANGED <<store, drafts, route, inflight, nextId>>
  /\ PageFrame

\* variant of onSearch's check that measures the query without trimming it
TooShortUntrimmed(text) == Len(text) < 2

\* query.length < 2, with query = q.trim()
TooShort(text) == Len(Trim(text)) < 2

\* Search.onSearch up to `await api.searchOrders(query)`
onSearch ==
  /\ route = "/search"
  /\ ~page.busy
  /\ IF TooShort(page.q)
     THEN /\ page' = [page EXCEPT !.error = "Type at least 2 characters"]
          /\ last' = UserStep("rejected", "search")
          /\ UNCHANGED <<inflight, nextId>>
     ELSE /\ page' = [page EXCEPT !.error = "", !.busy = TRUE]
          /\ Issue(PageReq("search", apiFetchHeaders(store, <<>>, TRUE), Trim(page.q)))
  /\ UNCHANGED <<store, drafts, route>>
  /\ PageFrame

\* variant of onSearch that sends the request again when it has failed
searchSettledRetrying(r, res) ==
  /\ r.op = "search"
  /\ drafts' = drafts
  /\ route' = route
  /\ nextId' = nextId
  /\ inflight' = IF res.ok THEN inflight \ {r} ELSE inflight
  /\ page' = IF r.orphan \/ ~res.ok THEN page
             ELSE [page EXCEPT !.busy = FALSE,
                               !.results = Or(Get(res.val, "results"), Arr("[]"))]

\* onSearch after `await api.searchOrders(query)`
searchSettled(r, res) ==
  /\ r.op = "search"
  /\ drafts' = drafts
  /\ route' = route
  /\ nextId' = nextId
  /\ inflight' = inflight \ {r}
  /\ page' = IF r.orphan THEN page
             ELSE IF res.ok
                  THEN [page EXCEPT !.busy = FALSE,
                                    !.results = Or(Get(res.val, "results"), Arr("[]"))]
                  ELSE [page EXCEPT !.busy = FALSE, !.results = Arr("[]"),
                                    !.error = IF res.msg # "" THEN res.msg
                                              ELSE "Search failed"]

\* e?.message || fallback
Message(res, fallback) == IF res.msg # "" THEN res.msg ELSE fallback

\* the request that a function awaiting r issues next
NextReq(r, op) ==
  [r EXCEPT !.op = op, !.id = Slot(inflight \ {r}, op),
            !.headers = apiFetchHeaders(store, <<>>, TRUE)]

\* a continuation that neither navigates nor touches sessionStorage: it
\* leaves pg as the state of the mounted page, and the requests `more` (the
\* next call of the function that awaited r) take the place of r
Stay(r, pg, more) ==
  /\ drafts' = drafts
  /\ route' = route
  /\ inflight' = (inflight \ {r}) \cup more
  /\ nextId' = nextId
  /\ page' = pg

\* variant of the Dashboard / AdminUsers effect without its `cancelled` test
effectSettledUnchecked(r, res) ==
  /\ r.op \in {"stats", "users"}
  /\ Stay(r, IF res.ok
             THEN IF r.op = "stats"
                  THEN [page EXCEPT !.data = Or(Get(res.val, "data"), Null)]
                  ELSE [page EXCEPT !.rows = Or(Get(res.val, "data"), Arr("[]"))]
             ELSE [page EXCEPT !.error = res.msg],
          {})

\* the effect of Dashboard / AdminUsers after `await api.dashboardStats()` /
\* `await api.adminUsers()`; r.orphan is its `cancelled`
effectSettled(r, res) ==
  /\ r.op \in {"stats", "users"}
  /\ Stay(r, IF r.orphan THEN page
             ELSE IF res.ok
                  THEN IF r.op = "stats"
                       THEN [page EXCEPT !.data = Or(Get(res.val, "data"), Null)]
                       ELSE [page EXCEPT !.rows = Or(Get(res.val, "data"), Arr("[]"))]
                  ELSE [page EXCEPT !.error =
                          Message(res, IF r.op = "stats" THEN "Failed to load dashboard"
                                       ELSE "Failed to load users")],
          {})

\* AdminSessions.revokeAll up to `await api.adminRevokeAllSessions()`
revokeAll ==
  /\ route = "/admin/sessions"
  /\ ~page.busy
  /\ page' = [page EXCEPT !.busy = TRUE, !.error = ""]
  /\ Issue(PageReq("revoke", apiFetchHeaders(store, <<>>, TRUE), "submit"))
  /\ UNCHANGED <<store, drafts, route>>
  /\ PageFrame

\* revokeAll after `await api.adminRevokeAllSessions()`: on success it calls
\* load(), which sets busy and issues the list request
revokeSettled(r, res) ==
  /\ r.op = "revoke"
  /\ IF res.ok
     THEN Stay(r, IF r.orphan THEN page ELSE [page EXCEPT !.busy = TRUE, !.error = ""],
               {NextReq(r, "sessions")})
     ELSE Stay(r, IF r.orphan THEN page
                  ELSE [page EXCEPT !.busy = FALSE,
                                    !.error = Message(res, "Failed to revoke all")],
               {})

\* AdminSessions.load after `await api.adminSessions()`
sessionsSettled(r, res) ==
  /\ r.op = "sessions"
  /\ Stay(r, IF r.orphan THEN page
             ELSE IF res.ok
                  THEN [page EXCEPT !.busy = FALSE,
                                    !.rows = Or(Get(res.val, "data"), Arr("[]"))]
                  ELSE [page EXCEPT !.busy = FALSE,
                                    !.error = Message(res, "Failed to load sessions")],
          {})

\* IssueOrderId.onSubmit up to `await api.issueOrderId(...)`; page.seen is the
\* `suggested` of the render whose onSubmit this is
onSubmit ==
  /\ route = "/issue-order-id"
  /\ ~page.busy
  /\ page' = [page EXCEPT !.busy = TRUE, !.error = "", !.seen = page.suggested]
  /\ Issue(PageReq("issue", apiFetchHeaders(store, <<>>, TRUE), "submit"))
  /\ UNCHANGED <<store, drafts, route>>
  /\ PageFrame

\* onSubmit after `await api.issueOrderId(...)`: on success it calls
\* setOrderId(suggested) and awaits load()
issueSettled(r, res) ==
  /\ r.op = "issue"
  /\ IF res.ok
     THEN Stay(r, IF r.orphan THEN page ELSE [page EXCEPT !.orderId = page.seen],
               {NextReq(r, "status")})
     ELSE Stay(r, IF r.orphan THEN page
                  ELSE [page EXCEPT !.busy = FALSE,
                                    !.error = Message(res, "Failed to issue")],
               {})

\* IssueOrderId.load after `await api.orderIdStatus()` and after
\* `await api.issuedIds(...)`; r.body tells the load() of the mount effect
\* from the one onSubmit awaits, whose end lets onSubmit clear busy
loadSettled(r, res) ==
  /\ r.op \in {"status", "issued"}
  /\ IF r.op = "status" /\ res.ok
     THEN LET s == ToStr(Or(Get(Get(res.val, "data"), "suggested_id"), Str("")))
          IN Stay(r, IF r.orphan THEN page
                     ELSE [page EXCEPT !.suggested = s,
                                       !.orderId = IF @ # "" THEN @ ELSE s],
                  {NextReq(r, "issued")})
     ELSE Stay(r, IF r.orphan THEN page
                  ELSE [page EXCEPT
                          !.busy = IF r.body = "submit" THEN FALSE ELSE @,
                          !.error = IF res.ok THEN @ ELSE Message(res, "Failed to load")],
               {})

\* res?.data?.token of a login response, undefined for any other request
LoginToken(r, res) ==
  IF r.op = "login" /\ res.ok THEN Get(Get(res.val, "data"), "token") ELSE Undefined

\* variant of Login.onSubmit whose submit control is never disabled
onLoginUnguarded ==
  /\ route = "/login"
  /\ page' = [page EXCEPT !.busy = TRUE, !.error = ""]
  /\ Issue([PageReq("login", apiFetchHeaders(store, <<>>, FALSE), "submit")
              EXCEPT !.auth = FALSE])
  /\ UNCHANGED <<store, drafts, route>>
  /\ PageFrame

\* Login.onSubmit up to `await login(...)`; the submit control is disabled
\* while busy
onLogin ==
  /\ route = "/login"
  /\ ~page.busy
  /\ page' = [page EXCEPT !.busy = TRUE, !.error = ""]
  /\ Issue([PageReq("login", apiFetchHeaders(store, <<>>, FALSE), "submit")
              EXCEPT !.auth = FALSE])
  /\ UNCHANGED <<store, drafts, route>>
  /\ PageFrame

\* Login.onSubmit after `await login(...)`; setToken and setUser of
\* AuthProvider.login are part of the step that answers the request
loginDone(r, res) ==
  /\ r.op = "login"
  /\ IF Truthy(LoginToken(r, res))
     THEN /\ drafts' = drafts
          /\ Go("/dashboard", drafts, page, inflight \ {r}, nextId)
     ELSE Stay(r, [page EXCEPT !.busy = FALSE,
                               !.error = IF res.ok THEN "Token missing in response"
                                         ELSE Message(res, "Login failed")],
               {})

\* the continuation of the page function that awaits request r
PageSettled(r, res) ==
  \/ uploadSettled(r, res)
  \/ generateSettled(r, res)
  \/ downloadSettled(r, res)
  \/ searchSettled(r, res)
  \/ effectSettled(r, res)
  \/ revokeSettled(r, res)
  \/ sessionsSettled(r, res)
  \/ issueSettled(r, res)
  \/ loadSettled(r, res)
  \/ loginDone(r, res)

\* requests whose page the user has left
Leave(S) == { [x EXCEPT !.left = TRUE] : x \in S }

\* the user follows a link of the layout to another page
PageNavigate(r) ==
  /\ Truthy(user)
  /\ r # route
  /\ Land(r, drafts) # route
  /\ store' = store
  /\ Go(r, drafts, page, Leave(inflight), nextId)
  /\ last' = UserStep("navigate", r)
  /\ drafts' = drafts
  /\ PageFrame

\* `await fetch(...)` of a page's request rejects
PageFetchFailed(r) ==
  /\ r \in inflight
  /\ store' = store
  /\ PageSettled(r, Rejected("Failed to fetch"))
  /\ last' = PageStep("failed", r, "", Rejected("Failed to fetch"))
  /\ PageFrame

\* `await fetch(...)` of a page's request resolves with a response of the
\* given status and body, and the request operation runs to its end
PageAnswer(r, status, raw) ==
  /\ r \in inflight
  /\ store' = SetToken(OnResponse(r.op, store, status),
                       LoginToken(r, Result(r.op, status, raw)))
  /\ user' = IF Truthy(LoginToken(r, Result(r.op, status, raw)))
             THEN MkUser(Get(Result(r.op, status, raw).val, "data"))
             ELSE user
  /\ PageSettled(r, Result(r.op, status, raw))
  /\ last' = PageStep("settled", [r EXCEPT !.status = status], raw,
                      Result(r.op, status, raw))
  /\ NetFrame

PagesNext ==
  \/ setFile(TRUE)
  \/ \E w \in Workflows : onUpload(w)
  \/ \E w \in Workflows : onGenerate(w)
  \/ \E r \in PageRoutes : PageNavigate(r)
  \/ \E r \in inflight : PageFetchFailed(r)
  \/ \E r \in inflight, status \in PageStatuses :
        \E raw \in BodiesFor(r.op) : PageAnswer(r, status, raw)
  \/ \E text \in Queries : setQ(text)
  \/ onSearch
  \/ revokeAll
  \/ onSubmit
  \/ onLogin

PagesSpec == PagesInit /\ [][PagesNext]_vars

----------------------------------------------------------------------------
(* The list pages: My Orders (Orders.jsx with the Pagination control, and   *)
(* its copy part_005 with Prev / Next) and AdminOrders.  One page stays     *)
(* mounted; `page` holds its state, with two history fields: `of`, the      *)
(* <<page, filters>> of the request whose response set the rows, and        *)
(* `latest`, those of the request issued last.                              *)

ListViews == {"Orders.jsx", "part_005", "AdminOrders"}
ListRoute(view) == IF view = "AdminOrders" THEN "/admin/orders" ELSE "/orders"
PerPage(view) == IF view = "AdminOrders" THEN 25 ELSE 20
FilterTexts == {"", "amit"}
ListStatuses == {200, 500}

\* variant of the Pagination control that always offers a following page
OfferedAlways(view, pg, rows, busy) == (1..(pg + 1)) \ {pg}

\* the page numbers the rendered controls let the user move to
Offered(view, pg, rows, busy) ==
  LET full == Length(rows) >= PerPage(view)
      shown == Length(rows) > 0 /\ (view = "AdminOrders" \/ ~busy)
  IN IF ~shown THEN {}
     ELSE IF view = "Orders.jsx"
          THEN (1..(IF full THEN pg + 1 ELSE pg)) \ {pg}
          ELSE (IF pg <= 1 THEN {} ELSE {IF pg - 1 > 1 THEN pg - 1 ELSE 1})
               \cup (IF full THEN {pg + 1} ELSE {})

ListReq(n, pg, filters) ==
  [id |-> n, op |-> "page", pg |-> pg, filters |-> filters,
   headers |-> apiFetchHeaders(store, <<>>, TRUE)]

\* what the list pages leave alone
ListFrame ==
  UNCHANGED <<user, loading, depToken, effectPending, route, guard, loginBusy,
              loginError, pageError, expired, call, session, drafts>>

ListInit ==
  /\ store = Str("T1")
  /\ user = MkUser(Get(jsonOrEmpty(BodyLogin), "data"))
  /\ loading = FALSE
  /\ depToken = "T1"
  /\ effectPending = FALSE
  /\ guard = "outlet"
  /\ loginBusy = FALSE
  /\ loginError = ""
  /\ pageError = ""
  /\ expired = FALSE
  /\ call = NoCall
  /\ session = NoSession
  /\ drafts = NoDrafts
  /\ \E view \in ListViews :
        /\ route = ListRoute(view)
        /\ page = [view |-> view, rows |-> Arr("[]"), error |-> "", busy |-> TRUE,
                   pg |-> 1, filters |-> "", of |-> <<>>, latest |-> <<1, "">>]
  /\ inflight = {ListReq(1, 1, "")}
  /\ nextId = 1
  /\ last = Step("issue", ListReq(1, 1, ""), 0, "", NoRes)

\* load(p), called `times` times in a row, up to its await: setBusy(true),
\* setError(""), and the request for page p with the filters of the render
load(p, times) ==
  /\ nextId + times <= MaxListRequests
  /\ page' = [page EXCEPT !.pg = p, !.busy = TRUE, !.error = "",
                          !.latest = <<p, page.filters>>]
  /\ inflight' = inflight \cup { ListReq(nextId + k, p, page.filters) : k \in 1..times }
  /\ nextId' = nextId + times
  /\ last' = Step("issue", ListReq(nextId + times, p, page.filters), 0, "", NoRes)
  /\ store' = store
  /\ ListFrame

\* setPage(value) by Prev, Next or the Pagination control; the [page] effect
\* then calls load(page)
setPage(value) ==
  /\ value \in Offered(page.view, page.pg, page.rows, page.busy)
  /\ value <= MaxPage
  /\ load(value, 1)

\* an input of the AdminOrders filter form
setFilters(text) ==
  /\ page.view = "AdminOrders"
  /\ text # page.filters
  /\ page' = [page EXCEPT !.filters = text]
  /\ last' = Step("input", [op |-> "filters"], 0, "", NoRes)
  /\ UNCHANGED <<store, inflight, nextId>>
  /\ ListFrame

\* submit of the AdminOrders filter form: setPage(1); load(1); when the page
\* was not 1 the [page] effect calls load(1) once more
applyFilters ==
  /\ page.view = "AdminOrders"
  /\ ~page.busy
  /\ load(1, IF page.pg = 1 THEN 1 ELSE 2)

\* load after `await api.ordersList(...)` / `await api.adminOrders(...)`
loadListSettled(r, res, kind, status, raw) ==
  /\ r \in inflight
  /\ inflight' = inflight \ {r}
  /\ page' = IF res.ok
             THEN [page EXCEPT !.busy = FALSE,
                     !.rows = Or(Get(Get(res.val, "data"), "orders"), Arr("[]")),
                     !.of = <<r.pg, r.filters>>]
             ELSE [page EXCEPT !.busy = FALSE,
                     !.error = Message(res, "Failed to load orders")]
  /\ store' = IF kind = "failed" THEN store ELSE apiFetchOnResponse(store, status)
  /\ last' = Step(kind, r, status, raw, res)
  /\ nextId' = nextId
  /\ ListFrame

ListNext ==
  \/ \E value \in 1..MaxPage : setPage(value)
  \/ \E text \in FilterTexts : setFilters(text)
  \/ applyFilters
  \/ \E r \in inflight : loadListSettled(r, Rejected("Failed to fetch"), "failed", 0, "")
  \/ \E r \in inflight, status \in ListStatuses, raw \in ListBodies \cup {BodyEmpty} :
        loadListSettled(r, apiFetchResult(status, raw), "settled", status, raw)

ListSpec == ListInit /\ [][ListNext]_vars

----------------------------------------------------------------------------
(* Properties *)

IsResponse(c) == c.fn \in ClientFns /\ c.status \in Statuses

\* C1: for apiFetch, uploadExcel and downloadReportBlob, a response with
\* status 401 leaves the token store empty, whatever the body and the token
\* stored before, and the call fails.
C1_Status401ClearsToken ==
  (IsResponse(call) /\ call.status = 401) =>
    /\ call.got = Str("")
    /\ store = Null
    /\ ~call.res.ok

C1_Witness ==
  /\ call.fn = "downloadReportBlob"
  /\ call.status = 401
  /\ call.raw = BodyHtml
  /\ call.before = Str("T1")
  /\ call.got = Str("")

Cleared == Truthy(GetToken(store)) /\ ~Truthy(GetToken(store'))

ByLogout == last'.kind \in {"settled", "failed"} /\ last'.op = "logout"
By401 == last'.kind = "response" /\ last'.status = 401
ByFailedWhoAmI == last'.kind \in {"settled", "failed"} /\ last'.op = "me" /\ ~last'.ok

\* C2 as stated: every change of the token store from non-empty to empty is
\* caused by a logout or by the receipt of a 401 response.
C2_OnlyLogoutOr401 == [][Cleared => (ByLogout \/ By401)]_vars

\* C2 as amended: every change of the token store from non-empty to empty is
\* caused by a logout, by the receipt of a 401 response, or by a failure (of
\* any kind) of the provider's who-am-I call.
C2_ClearedByLogout401OrFailedWhoAmI ==
  [][Cleared => (ByLogout \/ By401 \/ ByFailedWhoAmI)]_vars

C2_Witness ==
  /\ last.kind = "settled"
  /\ last.op = "me"
  /\ last.status = 500
  /\ nextId = 1
  /\ store = Null

\* C3: setToken with a falsy argument changes nothing: getToken() returns
\* afterwards what it returned before, for every prior state of the store.
C3_SetTokenFalsyIsNoOp ==
  (call.fn = "setToken" /\ ~Truthy(call.arg)) => call.got = call.before

C3_Witness ==
  /\ call.fn = "setToken"
  /\ call.arg = Str("")
  /\ call.before = Str("T1")
  /\ call.got = Str("T1")

\* C4: after setToken(t) with a non-empty string t, getToken() returns t;
\* after clearToken() it returns ""; it returns a string in every state, and
\* "" when no item is stored.
C4_TokenRoundTrip ==
  /\ (call.fn = "setToken" /\ call.arg.k = "string" /\ call.arg.s # "") =>
        (call.got = call.arg /\ GetToken(store) = call.arg)
  /\ call.fn = "clearToken" => (call.got = Str("") /\ store = Null)
  /\ call.fn = "getToken" => call.got = call.before
  /\ GetToken(store).k = "string"
  /\ store = Null => GetToken(store) = Str("")

C4_Witness ==
  /\ call.fn = "setToken"
  /\ call.arg = Str("T2")
  /\ call.before = Str("T1")
  /\ call.got = Str("T2")

\* C5: a request issued with auth: false carries no Authorization header,
\* whatever token is in the store.
C5_NoAuthHeaderWithoutAuthFlag ==
  \A r \in inflight : ~r.auth => ~HasHeader(r.headers, "Authorization")

C5_Witness ==
  /\ last.kind = "issue"
  /\ last.op = "login"
  /\ store = Str("T1")
  /\ \E r \in inflight : r.op = "login" /\ ~r.auth /\ r.phase = "fetch"

\* C6: apiFetch with auth: true sends exactly one Authorization header, with
\* value "Bearer T", when the store holds T (also when the caller gave its own
\* Authorization header); with an empty store it sends the caller's headers
\* and adds no Authorization header.
C6_BearerHeaderExactlyOnce ==
  (call.fn = "apiFetch" /\ call.auth) =>
    IF call.before # Str("")
    THEN /\ HeaderCount(call.out, "Authorization") = 1
         /\ HeaderValues(call.out, "Authorization") = {"Bearer " \o call.before.s}
    ELSE /\ HeaderCount(call.out, "Authorization")
              = HeaderCount(call.headers, "Authorization")
         /\ HeaderValues(call.out, "Authorization")
              = HeaderValues(call.headers, "Authorization")

C6_Witness ==
  /\ call.fn = "apiFetch"
  /\ call.auth
  /\ call.before = Str("T1")
  /\ HasHeader(call.headers, "Authorization")
  /\ HeaderValues(call.out, "Authorization") = {"Bearer T1"}

\* the text of a non-empty string field of a parsed body, "" otherwise
FieldText(raw, key) ==
  LET p == JsonParse(raw)
      f == IF p.ok THEN Get(p.v, key) ELSE Undefined
  IN IF f.k = "string" THEN f.s ELSE ""

\* C7: apiFetch fails on every status outside 200..299, with the body's
\* non-empty error field as message, else its non-empty message field, else
\* "Request failed (<status>)"; an unparsable body counts as an empty object.
C7_ErrorMessageOrder ==
  (call.fn = "apiFetch" /\ IsResponse(call) /\ ~(call.status \in 200..299)) =>
    /\ ~call.res.ok
    /\ call.res.msg =
         IF FieldText(call.raw, "error") # "" THEN FieldText(call.raw, "error")
         ELSE IF FieldText(call.raw, "message") # "" THEN FieldText(call.raw, "message")
         ELSE "Request failed (" \o ToString(call.status) \o ")"
    /\ (call.status = 400 /\ call.raw = BodyError) => call.res.msg = "bad input"
    /\ (call.status = 500 /\ call.raw = BodyHtml) => call.res.msg = "Request failed (500)"

C7_Witness ==
  /\ call.fn = "apiFetch"
  /\ call.status = 500
  /\ call.raw = BodyBlankErr
  /\ call.res.msg = "fallback"

\* C8: apiFetch returns, on every status in 200..299, the parsed body as it
\* is, and an empty object when the body cannot be parsed.
C8_SuccessReturnsBodyUnchanged ==
  (call.fn = "apiFetch" /\ IsResponse(call) /\ call.status \in 200..299) =>
    /\ call.res.ok
    /\ call.res.val = IF JsonParse(call.raw).ok THEN JsonParse(call.raw).v ELSE EmptyObj
    /\ call.raw = BodyData =>
         call.res.val = Obj({ << <<"data", "x">>, Leaf("number", "1") >> })
    /\ call.raw \in {BodyEmpty, BodyHtml} => call.res.val = EmptyObj

C8_Witness ==
  /\ call.fn = "apiFetch"
  /\ call.status = 201
  /\ call.raw = BodyData
  /\ call.res.ok
  /\ Get(Get(call.res.val, "data"), "x") = Scalar("number", "1")

\* C9: the guard renders the protected subtree only when loading is false and
\* a user is established, the loading state only while loading is true, and
\* the redirect to /login only when loading is false and there is no user; a
\* protected route shows nothing else.
C9_GuardRendersByState ==
  /\ guard = "outlet" => (~loading /\ user # Null /\ Protected(route))
  /\ guard = "loading" => (loading /\ Protected(route))
  /\ guard = "redirect" => (~loading /\ user = Null /\ route = "/login")
  /\ Protected(route) => guard \in {"outlet", "loading"}

C9_Witness ==
  /\ guard = "outlet"
  /\ route = "/orders"
  /\ user # Null
  /\ ~loading

\* a step in which the user moves to a protected route, which renders RequireAuth
ProtectedNavigation == last'.kind = "navigate" /\ Protected(last'.op)

\* C10: once a 401 response to a page's API call has cleared the stored token
\* of the established user, the next render of a protected route (a protected navigation) does
\* not show the protected subtree: the guard redirects to /login.
C10_RedirectAfter401 ==
  [][(expired /\ ProtectedNavigation) => guard' # "outlet"]_vars

\* C11: the provider starts with loading true, and once loading is false no
\* step (login, logout, refresh, token change, navigation) makes it true again.
C11_LoadingNeverReturns == (loading = TRUE) /\ [][~loading => ~loading']_vars

C11_Witness ==
  /\ ~loading
  /\ user # Null
  /\ last.kind = "issue"
  /\ last.op = "me"
  /\ nextId = 2
  /\ store = Str("T2")

\* C12: in a session of direct calls -- login answered with a token, me(),
\* logout(), then a protected call -- the token of the login response is the
\* one stored; me() carries it as its only Authorization header and returns
\* the user the server sent; after logout the store is empty; and the
\* protected call that follows carries no Authorization header (none but one
\* its own caller passed in).
C12_SessionSequence ==
  /\ session.phase = "loggedIn" =>
        (session.token # "" /\ store = Str(session.token))
  /\ session.phase = "meSent" =>
        /\ HeaderCount(call.out, "Authorization") = 1
        /\ HeaderValues(call.out, "Authorization") = {"Bearer " \o session.token}
  /\ session.phase = "meReturned" =>
        /\ call.res.ok
        /\ Get(Get(call.res.val, "data"), "username") = Str("amit")
  /\ session.phase = "loggedOut" => (store = Null /\ GetToken(store) = Str(""))
  /\ session.phase = "callAfterLogout" =>
        /\ HeaderValues(call.out, "Authorization")
              = HeaderValues(call.headers, "Authorization")
        /\ call.headers = <<>> => ~HasHeader(call.out, "Authorization")

C12_Witness ==
  /\ session = [phase |-> "callAfterLogout", token |-> "T2"]
  /\ call.fn = "apiFetch"
  /\ call.headers = <<>>
  /\ call.out = << <<"Content-Type", "application/json">> >>

\* a request has settled in this step
PageDone(op) == last'.kind \in {"settled", "failed"} /\ last'.op = op

\* C13: for both workflows, a successful upload leaves the data object of its
\* response as the workflow's draft; every generate-report request carries
\* the upload_id of the draft its page read (the stored draft, unless that
\* has been emptied since); and a successful generate-report call leaves the
\* workflow's draft reading back as null.
C13_UploadThenGenerate ==
  [][ /\ (PageDone("upload") /\ last'.ok) =>
           /\ getUploadState(drafts', WorkflowOf(last'.from))
                = Or(Get(jsonOrEmpty(last'.raw), "data"), Null)
           /\ last'.raw = BodyUpload =>
                getUploadState(drafts', WorkflowOf(last'.from))
                  = UploadData("U1", "f.xlsx")
      /\ \A r \in inflight' \ inflight :
           (last'.kind = "issue" /\ r.op = "generate") =>
             /\ r.from = route
             /\ r.body # ""
             /\ Str(r.body) = UploadId(page.upload)
             /\ \/ page.upload = getUploadState(drafts, WorkflowOf(route))
                \/ getUploadState(drafts, WorkflowOf(route)) = Null
      /\ (PageDone("generate") /\ last'.ok) =>
           getUploadState(drafts', WorkflowOf(last'.from)) = Null
    ]_vars

C13_Witness ==
  /\ last.kind = "settled"
  /\ last.op = "generate"
  /\ last.from = "/additional/details"
  /\ last.ok
  /\ last.body = "U1"
  /\ last.raw = BodyReport
  /\ drafts[UPLOAD_KEY("additional")] = Str(BodyNull)
  /\ getUploadState(drafts, "additional") = Null

\* C14: the two drafts are kept under different keys, and a workflow's draft
\* changes only when an upload or a generate-report call of that same
\* workflow succeeds: a failed generate-report call changes no draft, and no
\* operation of one workflow writes or clears the draft of the other.
C14_DraftFrame ==
  [][ /\ UPLOAD_KEY("new") # UPLOAD_KEY("additional")
      /\ (PageDone("generate") /\ ~last'.ok) => drafts' = drafts
      /\ \A w \in Workflows :
           drafts'[UPLOAD_KEY(w)] # drafts[UPLOAD_KEY(w)] =>
             /\ last'.kind = "settled"
             /\ last'.ok
             /\ last'.op \in {"upload", "generate"}
             /\ WorkflowOf(last'.from) = w
    ]_vars

C14_Witness ==
  /\ last.kind = "settled"
  /\ last.op = "generate"
  /\ last.from = "/new/details"
  /\ last.status = 500
  /\ last.body = "U0"
  /\ drafts[UPLOAD_KEY("new")] = Str(JsonUpload0)
  /\ drafts[UPLOAD_KEY("additional")] = Str(JsonUpload)
  /\ Truthy(UploadId(page.upload))
  /\ ~page.busy

\* C15: uploadExcel follows the contract of apiFetch: it sends Authorization:
\* Bearer <token> exactly when a token is stored and never a Content-Type
\* header; a 401 response empties the token store; and on every status outside
\* 200..299 it fails with the body's error field, else its message field, else
\* "Request failed (<status>)".
C15_UploadSameContract ==
  call.fn = "uploadExcel" =>
    /\ call.status = 0 =>
          /\ ~HasHeader(call.out, "Content-Type")
          /\ IF call.before # Str("")
             THEN call.out = << <<"Authorization", "Bearer " \o call.before.s>> >>
             ELSE ~HasHeader(call.out, "Authorization")
    /\ call.status = 401 => store = Null
    /\ (IsResponse(call) /\ ~(call.status \in 200..299)) =>
          /\ ~call.res.ok
          /\ call.res.msg =
               IF FieldText(call.raw, "error") # "" THEN FieldText(call.raw, "error")
               ELSE IF FieldText(call.raw, "message") # ""
                    THEN FieldText(call.raw, "message")
                    ELSE "Request failed (" \o ToString(call.status) \o ")"

\* C16: downloadReportBlob sends Authorization: Bearer <token> exactly when a
\* token is stored; a 401 response empties the token store; on a status in
\* 200..299 it returns the payload as it came, as a blob, parsed or not; on
\* any other status it fails, never returning a blob, with the parsed body's
\* error field as message when it has one -- an unparsable body counting as
\* an empty object.
C16_DownloadContract ==
  call.fn = "downloadReportBlob" =>
    /\ call.status = 0 =>
          IF call.before # Str("")
          THEN call.out = << <<"Authorization", "Bearer " \o call.before.s>> >>
          ELSE call.out = <<>>
    /\ call.status = 401 => store = Null
    /\ (IsResponse(call) /\ call.status \in 200..299) =>
          /\ call.res.ok
          /\ call.res.blob = call.raw
          /\ call.res.val = Undefined
    /\ (IsResponse(call) /\ ~(call.status \in 200..299)) =>
          /\ ~call.res.ok
          /\ call.res.blob = ""
          /\ call.res.msg =
               IF FieldText(call.raw, "error") # "" THEN FieldText(call.raw, "error")
               ELSE "Download failed (" \o ToString(call.status) \o ")"
          /\ ~JsonParse(call.raw).ok =>
               call.res.msg = "Download failed (" \o ToString(call.status) \o ")"

C16_Witness ==
  /\ call.fn = "downloadReportBlob"
  /\ call.status = 200
  /\ call.raw = BodyError
  /\ call.res.ok
  /\ call.res.blob = BodyError

\* C17: every failure of a request started by a page action, on a page the
\* user has not left, ends with the error banner of the page on screen
\* showing a non-empty message and with its busy flag false.
C17_FailureSurfaces ==
  [][ (last'.kind \in {"settled", "failed"} /\ ~last'.ok /\ ~last'.left) =>
        (page'.error # "" /\ ~page'.busy)
    ]_vars

\* the Search form has been submitted in this step
SearchSubmitted ==
  /\ route = "/search"
  /\ last'.op = "search"
  /\ last'.kind \in {"rejected", "issue"}

\* C18: submitting the Search form with a query of fewer than 2 characters
\* after trimming sets the error "Type at least 2 characters", issues no
\* request, leaves busy false and leaves the results shown as they were.
C18_ShortQueryRejectedLocally ==
  [][ (SearchSubmitted /\ page.q \in {"", "a", " a ", " ", "a "}) =>
        /\ page'.error = "Type at least 2 characters"
        /\ inflight' = inflight
        /\ nextId' = nextId
        /\ ~page'.busy
        /\ page'.results = page.results
        /\ last'.kind = "rejected"
    ]_vars

C18_Witness ==
  /\ route = "/search"
  /\ last = UserStep("rejected", "search")
  /\ page.q = " a "
  /\ page.error = "Type at least 2 characters"
  /\ page.results # Arr("[]")
  /\ ~page.busy
  /\ nextId = 1

\* the submit actions whose control is disabled while the page's flag is set
GuardedOps == {"login", "upload", "generate", "issue", "search", "revoke"}

\* x is awaited by a handler of the mounted page that holds the flag: the
\* request of a submit action, the list request of AdminSessions.load, or a
\* request of the IssueOrderId.load that onSubmit awaits
Holds(x) ==
  /\ ~x.orphan
  /\ \/ x.op \in GuardedOps
     \/ x.op = "sessions"
     \/ x.op \in {"status", "issued"} /\ x.body = "submit"

\* at most one outstanding request of each submit action per page instance
OnePerAction ==
  \A g \in GuardedOps : Cardinality({x \in inflight : x.op = g /\ ~x.orphan}) <= 1

\* C19 (as amended): at most one request of each guarded submit action is
\* outstanding per page instance, a submission starts only while the flag is
\* clear, and the flag is set exactly while the handler that set it awaits a
\* request: it is cleared when the action's request fails or, on success, when
\* the handler has finished, which for issue order ID and session revoke is
\* after the reload they await has settled.
C19_OneSubmission ==
  [][ /\ OnePerAction'
      /\ (last'.kind = "issue" /\ last'.op \in GuardedOps) => ~page.busy
      /\ page'.busy <=> (\E x \in inflight' : Holds(x)) ]_vars

\* C19 witness: the issue request has succeeded, and the flag stays set while
\* the reload that onSubmit awaits is outstanding
C19_Witness ==
  /\ last.kind = "settled" /\ last.op = "issue" /\ last.ok /\ ~last.orphan
  /\ page.busy
  /\ \E x \in inflight : x.op = "status" /\ x.body = "submit" /\ ~x.orphan

\* C19 as stated: the flag is cleared at the step in which the action's own
\* request settles
C19_ClearedAtSettle ==
  [][ /\ OnePerAction'
      /\ (last'.kind = "issue" /\ last'.op \in GuardedOps) => ~page.busy
      /\ (/\ last'.kind \in {"settled", "failed"}
          /\ last'.op \in GuardedOps
          /\ ~last'.orphan) => ~page'.busy ]_vars

\* the requests issued by an effect that marks itself cancelled on unmount
EffectOps == {"stats", "users"}

\* C20: when the request of the Dashboard or AdminUsers effect settles after
\* its component has unmounted, neither its result nor its error changes any
\* page state; and the request is not aborted by the unmount: it leaves the
\* set of outstanding requests only by settling.
C20_LateResponseDiscarded ==
  [][ /\ (/\ last'.kind \in {"settled", "failed"}
          /\ last'.op \in EffectOps
          /\ last'.orphan) => (page' = page /\ route' = route)
      /\ \A x \in inflight :
            (/\ x.op \in EffectOps
             /\ ~(\E y \in inflight' : y.op = x.op /\ y.id = x.id))
            => (last'.kind \in {"settled", "failed"} /\ last'.op = x.op) ]_vars

\* C20 witness: the statistics request of an unmounted Dashboard has been
\* answered with data while a new Dashboard instance is mounted, still
\* waiting for its own request and showing nothing
C20_Witness ==
  /\ last.kind = "settled" /\ last.op = "stats" /\ last.ok /\ last.orphan
  /\ route = "/dashboard"
  /\ page.data = Null /\ page.error = ""
  /\ \E x \in inflight : x.op = "stats" /\ ~x.orphan

\* C21: a call of a request operation issues exactly one network request, and
\* a request that fails (a transport failure, an error status, or a login
\* answer without token) is not sent again: the step in which it settles
\* removes it and issues nothing, and the mounted page that awaits it shows
\* the one failure.
C21_NoRetry ==
  [][ /\ last'.kind = "issue"
          => /\ Cardinality(inflight') = Cardinality(inflight) + 1
             /\ nextId' = nextId + 1
      /\ (last'.kind \in {"settled", "failed"} /\ ~last'.ok)
          => /\ Cardinality(inflight') = Cardinality(inflight) - 1
             /\ nextId' = nextId
             /\ \A y \in inflight' : \E x \in inflight :
                   x.op = y.op /\ x.id = y.id /\ x.from = y.from
             /\ ~last'.orphan => page'.error # "" ]_vars

\* C21 witness: an upload has failed at the transport level; nothing is
\* outstanding and the upload page shows the failure
C21_Witness ==
  /\ last.kind = "failed" /\ last.op = "upload" /\ ~last.orphan
  /\ inflight = {}
  /\ nextId = 1
  /\ page.error = "Failed to fetch"

\* the request of this step, when it is a who-am-I check sent with the token
\* that was stored before the login
StaleWhoAmI ==
  /\ last'.kind \in {"response", "settled", "failed"}
  /\ \E r \in inflight \ inflight' :
        r.op = "me" /\ r.headers = apiFetchHeaders(Str("T1"), <<>>, TRUE)

\* C22: once a login has stored its token T2 and established its user, no
\* step of a who-am-I check that was sent earlier with the token stored
\* before, whatever its outcome, empties the token store or removes the user.
C22_LoginSurvivesEarlierRequest ==
  [][ (GetToken(store) = Str("T2") /\ Truthy(user) /\ StaleWhoAmI)
      => (GetToken(store') = Str("T2") /\ Truthy(user')) ]_vars

\* C23: the step in which generate-report succeeds for the mounted details
\* page leaves that page mounted, showing the result it received.
C23_StaysOnResultView ==
  [][ (/\ last'.kind = "settled" /\ last'.op = "generate"
       /\ last'.ok /\ ~last'.orphan)
      => (/\ route' = route
          /\ page'.result = Or(Get(jsonOrEmpty(last'.raw), "data"), Null)) ]_vars

\* C24: on the AdminOrders page, once no list request is outstanding and none
\* of the requests since the last load began has failed (no error is shown),
\* the rows shown are those returned for the request issued last.
C24_RowsOfLatestRequest ==
  (page.view = "AdminOrders" /\ inflight = {} /\ page.error = "")
  => page.of = page.latest

\* C30: on the My Orders page the page number is at least 1 in every state;
\* a step to a lower page number starts above 1, and a step to a following
\* page is taken only from a rendered table whose rows, those of the last
\* page fetched, are a full page (no fewer than perPage).
C30_PageAtLeastOne ==
  /\ page.pg >= 1
  /\ [][ page.view \in {"Orders.jsx", "part_005"}
         => /\ page'.pg >= 1
            /\ page'.pg < page.pg => page.pg > 1
            /\ page'.pg > page.pg
                 => /\ Length(page.rows) >= PerPage(page.view)
                    /\ ~page.busy
                    /\ page.of # <<>> ]_vars

\* C30 witness: My Orders has moved from a full first page to page 2 and back
C30_Witness ==
  /\ page.view = "part_005"
  /\ page.pg = 1
  /\ page.latest = <<1, "">>
  /\ page.of = <<2, "">>
  /\ last.kind = "issue"

\* C25: the step in which the server logout request settles, with success,
\* with an error status or with a transport failure, leaves the token store
\* empty, the user null and the route /login, and sets no error message.
C25_LogoutCompletesLocally ==
  [][ (last'.op = "logout" /\ last'.kind \in {"settled", "failed"})
      => /\ GetToken(store') = Str("")
         /\ user' = Null
         /\ route' = "/login"
         /\ loginError' \in {loginError, ""}
         /\ pageError' \in {pageError, ""} ]_vars

\* C25 witness: the logout request of a signed-in user has failed at the
\* transport level, and the application is signed out at /login
C25_Witness ==
  /\ last.op = "logout" /\ last.kind = "failed"
  /\ store = Null /\ user = Null /\ route = "/login"
  /\ loginError = ""

\* a call of AuthProvider.login that does not end with a token stored: the
\* answer is an error status, or a success status without data.token
LoginWithoutToken ==
  /\ call'.fn = "login"
  /\ ~(ResOk(call'.status) /\ TokenOf(call'.raw) # "")

\* C26 (as amended): a login answered with a success status but no data.token
\* fails with "Token missing in response"; it and a login answered with an
\* error status leave the user unchanged, and leave the token store unchanged
\* unless the status is 401, which empties the store as for every request.
C26_FailedLoginKeepsSession ==
  [][ LoginWithoutToken
      => /\ ~call'.res.ok
         /\ ResOk(call'.status) => call'.res = Rejected("Token missing in response")
         /\ user' = user
         /\ call'.status # 401 => store' = store
         /\ call'.status = 401 => GetToken(store') = Str("") ]_vars

\* C26 witness: with a user established and a token stored, a login answered
\* 200 without token has failed and changed neither
C26_Witness ==
  /\ call.fn = "login" /\ call.status = 200 /\ call.raw = BodyUser
  /\ call.res = Rejected("Token missing in response")
  /\ Truthy(user)
  /\ call.before = Str("T2") /\ store = Str("T2")

\* C26 as stated: no login that fails changes the token store or the user
C26_FailedLoginChangesNothing ==
  [][ LoginWithoutToken
      => /\ ~call'.res.ok
         /\ ResOk(call'.status) => call'.res = Rejected("Token missing in response")
         /\ user' = user
         /\ store' = store ]_vars

\* C27: the provider eventually leaves its loading state.  With an empty
\* token store it does so in the first run of its effect, which issues no
\* request and leaves the user null; with a stored token it does so in the
\* step that settles the who-am-I call, with the user that call returned and
\* with no user when it returned none or failed.
C27_GuardLeavesLoading ==
  /\ <>(~loading /\ guard # "loading")
  /\ [][ /\ (loading /\ effectPending /\ ~Truthy(GetToken(store)) /\ nextId = 0)
            => (~loading' /\ user' = Null /\ inflight' = {} /\ nextId' = 0)
         /\ (loading /\ ~loading')
            => \/ /\ last'.kind = "refresh"
                  /\ ~Truthy(GetToken(store))
                  /\ user' = Null
                  /\ nextId' = nextId
               \/ /\ last'.op = "me"
                  /\ last'.kind \in {"settled", "failed"}
                  /\ user' = IF last'.ok
                             THEN Or(Get(jsonOrEmpty(last'.raw), "data"), Null)
                             ELSE Null ]_vars

\* C27 witness: started with a stored token, the who-am-I call has returned
\* user data and the guard renders the protected page
C27_Witness ==
  /\ last.op = "me" /\ last.kind = "settled" /\ last.ok
  /\ ~loading
  /\ Truthy(user)
  /\ guard = "outlet"

\* the mounted IssueOrderId page has just finished the reload that follows a
\* successful submission, the reload has returned a suggestion, and no other
\* request of the page is outstanding
ReloadDone ==
  /\ last'.kind = "settled" /\ last'.op = "issued" /\ last'.body = "submit"
  /\ ~last'.orphan
  /\ page'.suggested # ""
  /\ \A x \in inflight' : x.orphan

\* C28: when the reload that follows a successful issue-order-ID submission
\* has finished, the Order ID field holds the suggestion that reload returned.
C28_FieldHoldsFreshSuggestion ==
  [][ ReloadDone => page'.orderId = page'.suggested ]_vars

\* the workflow's draft in sessionStorage d has no upload_id
NoUploadId(d, w) == ~Truthy(UploadId(getUploadState(d, w)))

\* C29: a details page opened, by a link or after an upload, while its
\* workflow's draft has no upload_id ends at the workflow's upload page; a
\* mounted details page has read an upload_id from its draft; and every
\* generate-report request is issued by a details page with the upload_id it
\* read.
C29_NoGenerateWithoutUpload ==
  [][ /\ (/\ last'.kind = "navigate" /\ IsDetails(last'.op)
          /\ NoUploadId(drafts, WorkflowOf(last'.op)))
         => route' = UploadRoute(WorkflowOf(last'.op))
      /\ (/\ PageDone("upload") /\ last'.ok
          /\ NoUploadId(drafts', WorkflowOf(last'.from)))
         => ~IsDetails(route')
      /\ IsDetails(route') => Truthy(UploadId(page'.upload))
      /\ \A r \in inflight' \ inflight :
           (last'.kind = "issue" /\ r.op = "generate")
           => /\ IsDetails(route)
              /\ Truthy(UploadId(page.upload))
              /\ r.body = ToStr(UploadId(page.upload)) ]_vars

\* C29 witness: the user has followed the link to the details page of the
\* additional workflow without a draft and is at its upload page
C29_Witness ==
  /\ last.kind = "navigate" /\ last.op = "/additional/details"
  /\ NoUploadId(drafts, "additional")
  /\ route = "/additional/upload"
  /\ \A r \in inflight : r.op # "generate"

====
